---------------------------- MODULE Spec2Model ----------------------------
(***************************************************************************)
(* A model of the layered configuration store of ovos_config                *)
(* (src/src/config.rs): LocalConf, ReadOnlyConfig and MycroftDefaultConfig, *)
(* together with the files they read and write.                             *)
(*                                                                          *)
(* File contents are modelled line by line: a text is a sequence of lines,  *)
(* each line a record.  The JSON and YAML serialisers, the comment          *)
(* stripper and the parsers are operators over such texts.                  *)
(***************************************************************************)
EXTENDS Integers, Sequences, FiniteSets, TLC

(***************************************************************************)
(* Bounds                                                                   *)
(***************************************************************************)
\* modification times range over 1..MaxTime
MaxTime == 2

Times == 1..MaxTime

(***************************************************************************)
(* Paths                                                                    *)
(***************************************************************************)
None == "None"

DEFAULT_CONFIG == "/etc/mycroft/mycroft.conf"

ROOT_YAML == "/opt/app/root.yaml"

Paths == {DEFAULT_CONFIG, ROOT_YAML}

OptPaths == Paths \cup {None}

\* LocalConf::get_file_format: yaml for a .yml/.yaml extension, else json
get_file_format(p) == IF p = ROOT_YAML THEN "yaml" ELSE "json"

(***************************************************************************)
(* Dictionaries (ConfigDict = HashMap<String, Value>)                       *)
(***************************************************************************)
Keys == {"k", "j"}

\* two numbers and a string value that contains two slashes
URL == "http://x"

Vals == {"1", "2", URL}

EmptyDict == [x \in {} |-> "1"]

\* HashMap::insert
Insert(d, key, value) ==
  [x \in (DOMAIN d) \cup {key} |-> IF x = key THEN value ELSE d[x]]

Dicts == UNION {[S -> Vals] : S \in SUBSET Keys}

\* replaces the dictionary instead of merging into it
MergeDropsOld(d, conf) == conf

\* removes a key that is already present instead of overwriting it
MergeToggles(d, conf) ==
  [x \in ((DOMAIN d) \ (DOMAIN conf)) \cup ((DOMAIN conf) \ (DOMAIN d)) |->
     IF x \in DOMAIN conf THEN conf[x] ELSE d[x]]

\* the loop `for (key, value) in conf { data.insert(key, value) }`
MergeInto(d, conf) ==
  [x \in (DOMAIN d) \cup (DOMAIN conf) |-> IF x \in DOMAIN conf THEN conf[x] ELSE d[x]]

(***************************************************************************)
(* Texts                                                                    *)
(***************************************************************************)
Line(t) == [t |-> t, k |-> "", v |-> ""]

\* a line holding one entry, `"k": v` in JSON and `k: v` in YAML
KV(key, value) == [t |-> "kv", k |-> key, v |-> value]

LB == Line("{")

RB == Line("}")

\* the text `{}` both serialisers emit for an empty map
EMPTY_MAP == Line("{}")

\* a line `// comment`
LINE_COMMENT == Line("//")

\* a fragment `/* note */`
BLOCK_COMMENT == Line("/**/")

\* what is left of an entry line whose tail was removed as a comment
CUT == Line("cut")

\* the text s without its first n lines
Rest(s, n) == IF n >= Len(s) THEN << >> ELSE SubSeq(s, n + 1, Len(s))

RECURSIVE SeqFilter(_, _)
SeqFilter(s, keep) ==
  IF s = << >> THEN << >>
  ELSE IF Head(s) \in keep THEN <<Head(s)>> \o SeqFilter(Rest(s, 1), keep)
       ELSE SeqFilter(Rest(s, 1), keep)

\* the iteration orders a HashMap with key set S can have
Orders(S) ==
  {o \in UNION {[1..n -> S] : n \in {Cardinality(S)}} :
      \A i, j \in DOMAIN o : i # j => o[i] # o[j]}

Entries(d, ord) == [i \in DOMAIN ord |-> KV(ord[i], d[ord[i]])]

\* serde_json::to_string_pretty(&*data)
ToJson(d, ord) ==
  IF DOMAIN d = {} THEN <<EMPTY_MAP>> ELSE <<LB>> \o Entries(d, ord) \o <<RB>>

\* serde_yaml::to_string(&*data)
ToYaml(d, ord) ==
  IF DOMAIN d = {} THEN <<EMPTY_MAP>> ELSE Entries(d, ord)

\* re.replace_all(&contents, ""): comments go, and so does the rest of a
\* line from `//` on, also when the `//` is inside a string value
StripComments(s) ==
  LET cutLine(l) == IF l.t = "kv" /\ l.v = URL THEN CUT ELSE l
  IN CHOOSE text \in
       {[i \in DOMAIN f |-> cutLine(f[i])] :
          f \in {SeqFilter(s, kept) :
                   kept \in {{l \in {s[i] : i \in DOMAIN s} :
                                l.t \notin {"//", "/**/"}}}}} : TRUE

RECURSIVE DictOf(_)
\* serde's HashMap visitor: entries are inserted in order, the last one wins
DictOf(s) ==
  IF s = << >> THEN EmptyDict
  ELSE LET n == Len(s) IN Insert(DictOf(SubSeq(s, 1, n - 1)), s[n].k, s[n].v)

AllKV(s) == \A i \in DOMAIN s : s[i].t = "kv"

Ok(d) == [ok |-> TRUE, d |-> d]

Fail == [ok |-> FALSE, d |-> EmptyDict]

\* a map in braces: `{`, entries, `}`
FlowMap(s) ==
  /\ Len(s) >= 2
  /\ s[1] = LB
  /\ s[Len(s)] = RB
  /\ AllKV(SubSeq(s, 2, Len(s) - 1))

\* serde_json::from_str::<ConfigDict>
FromJson(s) ==
  IF s = <<EMPTY_MAP>> THEN Ok(EmptyDict)
  ELSE IF FlowMap(s) THEN Ok(DictOf(SubSeq(s, 2, Len(s) - 1)))
  ELSE Fail

\* serde_yaml::from_str::<ConfigDict>: a block map or a flow map
FromYaml(s) ==
  IF s = <<EMPTY_MAP>> THEN Ok(EmptyDict)
  ELSE IF FlowMap(s) THEN Ok(DictOf(SubSeq(s, 2, Len(s) - 1)))
  ELSE IF s # << >> /\ AllKV(s) THEN Ok(DictOf(s))
  ELSE Fail

\* the stripped text is computed once, then parsed
load_commented_json(s) ==
  CHOOSE config \in {FromJson(stripped) : stripped \in {StripComments(s)}} : TRUE

\* the parse of load_local, by the format of the path
Parse(p, s) ==
  IF get_file_format(p) = "yaml" THEN FromYaml(s) ELSE load_commented_json(s)


(***************************************************************************)
(* The file system                                                          *)
(***************************************************************************)
Absent == [kind |-> "absent", content |-> << >>, mtime |-> 0, readable |-> TRUE]

Dir == [kind |-> "dir", content |-> << >>, mtime |-> 0, readable |-> TRUE]

File(text, t) == [kind |-> "file", content |-> text, mtime |-> t, readable |-> TRUE]

\* a regular file the process may neither read nor write; its content cannot
\* be observed and is left out
Locked(t) == [kind |-> "file", content |-> << >>, mtime |-> t, readable |-> FALSE]

\* the texts other programs put into the files
J2 == <<LB, KV("k", "2"), KV("j", "1"), RB>>

\* `// comment` `{` `"k": 1` `/* note */` `}`
JC == <<LINE_COMMENT, LB, KV("k", "1"), BLOCK_COMMENT, RB>>

Y1 == <<KV("k", "2"), KV("j", "2")>>

BAD == <<LB, KV("k", "1")>>

Presets == {J2, JC, Y1, BAD}

VARIABLES
  fs,                \* path -> what is at the path
  now,               \* the clock the modification times are taken from
  kind,              \* the type of the layer object the application holds
  path,              \* LocalConf.path
  data,              \* LocalConf.data
  last_loaded,       \* LocalConf.last_loaded: {} is None, {t} is Some(t)
  allow_overwrite,   \* ReadOnlyConfig.allow_overwrite
  constructed_allow, \* the allow_overwrite the layer was constructed with
  last,              \* the last call: its name, arguments and outcome
  env,               \* the process environment: variable -> value
  out,               \* the last call of a location function and what it returned
  th,                \* thread -> where the thread is in the call it is running
  data_lock,         \* the RwLock around LocalConf.data
  last_loaded_lock,  \* the RwLock around LocalConf.last_loaded
  whole,             \* the dictionary as the last completed mutation left it
  merged             \* modification times of the versions of the bound file merged so far

vars == <<fs, now, kind, path, data, last_loaded, allow_overwrite,
          constructed_allow, last, env, out, th, data_lock, last_loaded_lock,
          whole, merged>>

\* what a program that only works on one layer from one thread leaves alone
aside == <<env, out, th, data_lock, last_loaded_lock, whole, merged>>

layer == <<kind, path, data, last_loaded, allow_overwrite, constructed_allow>>

Call(op, p, conf, result, read, log) ==
  [op |-> op, path |-> p, conf |-> conf, result |-> result, read |-> read,
   log |-> log]

(***************************************************************************)
(* LocalConf                                                                *)
(***************************************************************************)
Outcome(result, read, d, ll, log) ==
  [result |-> result, read |-> read, data |-> d, last_loaded |-> ll, log |-> log]

\* the path a call with override o works on
Effective(o) == IF o # None THEN o ELSE path

\* a marker recorded by every load, whatever file it read
MarkerAlways(bound, p, ll, t) == {t}

\* lines 66-72: the marker is taken when the loaded path is the bound path
Marker(bound, p, ll, t) == IF p = bound THEN {t} ELSE ll

\* load_local with unwrap_or_default() in place of expect(): a file that
\* cannot be read or parsed counts as an empty one
load_local_lenient(bound, override, d, ll, fsys) ==
  LET p == IF override # None THEN override ELSE bound IN
  IF p = None THEN Outcome("ok", FALSE, d, ll, "")
  ELSE IF fsys[p].kind # "file" THEN Outcome("ok", FALSE, d, ll, "not defined, skipping")
  ELSE LET config == IF fsys[p].readable THEN Parse(p, fsys[p].content) ELSE Fail IN
       Outcome("ok", TRUE, MergeInto(d, config.d),
               Marker(bound, p, ll, fsys[p].mtime), "loaded")

\* load_local without the exists()/is_file() test: opening a missing file panics
load_local_strict(bound, override, d, ll, fsys) ==
  LET p == IF override # None THEN override ELSE bound IN
  IF p = None THEN Outcome("ok", FALSE, d, ll, "")
  ELSE IF fsys[p].kind # "file" \/ ~fsys[p].readable THEN Outcome("panic", TRUE, d, ll, "")
  ELSE LET config == Parse(p, fsys[p].content) IN
       IF ~config.ok THEN Outcome("panic", TRUE, d, ll, "")
       ELSE Outcome("ok", TRUE, MergeInto(d, config.d),
                    Marker(bound, p, ll, fsys[p].mtime), "loaded")

\* load_local that takes a missing file for an empty configuration
load_local_resets(bound, override, d, ll, fsys) ==
  LET p == IF override # None THEN override ELSE bound IN
  IF p = None THEN Outcome("ok", FALSE, d, ll, "")
  ELSE IF fsys[p].kind # "file" THEN Outcome("ok", FALSE, EmptyDict, {}, "")
  ELSE IF ~fsys[p].readable THEN Outcome("panic", TRUE, d, ll, "")
  ELSE LET config == Parse(p, fsys[p].content) IN
       IF ~config.ok THEN Outcome("panic", TRUE, d, ll, "")
       ELSE Outcome("ok", TRUE, MergeInto(d, config.d),
                    Marker(bound, p, ll, fsys[p].mtime), "loaded")

\* LocalConf::load_local on a layer bound to `bound` holding d and ll
load_local(bound, override, d, ll, fsys) ==
  LET p == IF override # None THEN override ELSE bound IN
  IF p = None THEN Outcome("ok", FALSE, d, ll, "")
  ELSE IF fsys[p].kind # "file" THEN Outcome("ok", FALSE, d, ll, "not defined, skipping")
  ELSE IF ~fsys[p].readable THEN Outcome("panic", TRUE, d, ll, "")
  ELSE LET config == Parse(p, fsys[p].content) IN
       IF ~config.ok THEN Outcome("panic", TRUE, d, ll, "")
       ELSE Outcome("ok", TRUE, MergeInto(d, config.d),
                    Marker(bound, p, ll, fsys[p].mtime), "loaded")

\* reloads whatever the marker says
StaleAlways(ll, modified) == TRUE

\* last_loaded.map_or(true, |last| last < modified)
Stale(ll, modified) == \A t \in ll : t < modified

\* LocalConf::reload
reload(bound, d, ll, fsys) ==
  IF bound = None THEN Outcome("ok", FALSE, d, ll, "")
  ELSE IF fsys[bound].kind # "file" THEN Outcome("ok", FALSE, d, ll, "")
  ELSE IF Stale(ll, fsys[bound].mtime) THEN load_local(bound, bound, d, ll, fsys)
  ELSE Outcome("ok", FALSE, d, ll, "not changed since last load")

\* what OpenOptions::new().write(true).create(true).open() and write_all
\* leave in the file: the new text over the start of the old content
Written(old, text) == text \o Rest(old, Len(text))

Serialized(p, d, ord) ==
  IF get_file_format(p) = "yaml" THEN ToYaml(d, ord) ELSE ToJson(d, ord)

\* store that falls back to the default path when the layer has none
store_to_default(bound, override, d, fsys, ord, t) ==
  LET p == IF override # None THEN override
           ELSE IF bound # None THEN bound ELSE DEFAULT_CONFIG IN
  IF fsys[p].kind = "dir" \/ ~fsys[p].readable
  THEN [result |-> "panic", fs |-> fsys, wrote |-> FALSE, log |-> ""]
  ELSE [result |-> "ok", wrote |-> TRUE, log |-> "",
        fs |-> [fsys EXCEPT ![p] = File(Written(fsys[p].content, Serialized(p, d, ord)), t)]]

\* LocalConf::store; ord is the HashMap's iteration order, t the time of the write
store(bound, override, d, fsys, ord, t) ==
  LET p == IF override # None THEN override ELSE bound IN
  IF p = None
  THEN [result |-> "ok", fs |-> fsys, wrote |-> FALSE,
        log |-> "In-memory configuration, no save location"]
  ELSE IF fsys[p].kind = "dir" \/ ~fsys[p].readable
  THEN [result |-> "panic", fs |-> fsys, wrote |-> FALSE, log |-> ""]
  ELSE [result |-> "ok", wrote |-> TRUE, log |-> "",
        fs |-> [fsys EXCEPT ![p] = File(Written(fsys[p].content, Serialized(p, d, ord)), t)]]


(***************************************************************************)
(* ReadOnlyConfig                                                           *)
(***************************************************************************)
POLICY_ERROR == "This configuration is read-only and cannot be modified at runtime"

\* ReadOnlyConfig::reload, lines 151-154: the flag after the call.  Line 154
\* is not reached when inner.reload() panics.
FlagAfterReload(old, result) == IF result = "panic" THEN TRUE ELSE old

\* the check `if !self.allow_overwrite` of set, merge and store
Permitted(allow) == allow

(***************************************************************************)
(* The environment, path strings and the XDG resolver (xdg.rs)              *)
(***************************************************************************)
\* A string is a sequence of characters.  A file or directory name is one
\* character of the model; SEP and COLON are the characters the code tests.
SEP == "/"

COLON == ":"

\* a byte sequence that is not valid UTF-8
NOT_UTF8 == "\\xff"

\* the longest value of XDG_CONFIG_DIRS
MaxLen == 4

EnvVars == {"XDG_CONFIG_HOME", "XDG_CONFIG_DIRS", "HOME"}

\* env::var_os(name): None, or Some(s)
Unset == [set |-> FALSE, s |-> << >>]

Var(s) == [set |-> TRUE, s |-> s]

\* OsString::into_string().is_ok()
is_utf8(s) == \A i \in DOMAIN s : s[i] # NOT_UTF8

\* Path::is_absolute on unix: the path has a root
is_absolute(s) == Len(s) > 0 /\ s[1] = SEP

\* Path::join: an absolute argument replaces the path; otherwise it is pushed
\* after a separator, which a path that is empty or ends in one does not need
join(a, b) ==
  IF is_absolute(b) THEN b
  ELSE IF Len(a) = 0 \/ a[Len(a)] = SEP THEN a \o b
  ELSE a \o <<SEP>> \o b

RECURSIVE split(_)
\* str::split(':')
split(s) ==
  IF \A i \in DOMAIN s : s[i] # COLON THEN <<s>>
  ELSE LET i == CHOOSE n \in DOMAIN s : s[n] = COLON /\ \A m \in 1..(n - 1) : s[m] # COLON
       IN <<SubSeq(s, 1, i - 1)>> \o split(SubSeq(s, i + 1, Len(s)))

\* path_from_env that takes any non-empty value
path_from_env_unchecked(v, default) ==
  IF v.set /\ is_utf8(v.s) /\ Len(v.s) > 0 THEN v.s ELSE default

\* xdg.rs path_from_env: v is the variable's value
path_from_env(v, default) ==
  IF v.set /\ is_utf8(v.s) /\ Len(v.s) > 0 /\ is_absolute(v.s) THEN v.s ELSE default

\* paths_from_env that keeps the relative entries
paths_from_env_unchecked(v, default) ==
  IF ~(v.set /\ is_utf8(v.s)) THEN default
  ELSE LET entries == split(v.s)
           paths == SeqFilter(entries, {entries[i] : i \in {j \in DOMAIN entries :
                                                     Len(entries[j]) > 0}})
       IN IF paths = << >> THEN default ELSE paths

\* xdg.rs paths_from_env
paths_from_env(v, default) ==
  IF ~(v.set /\ is_utf8(v.s)) THEN default
  ELSE LET entries == split(v.s)
           paths == SeqFilter(entries, {entries[i] : i \in {j \in DOMAIN entries :
                                       Len(entries[j]) > 0 /\ is_absolute(entries[j])}})
       IN IF paths = << >> THEN default ELSE paths

\* xdg.rs home_dir
home_dir(e) ==
  IF e["HOME"].set /\ Len(e["HOME"].s) > 0 THEN e["HOME"].s ELSE <<SEP>>

xdg_config_home(e) ==
  path_from_env(e["XDG_CONFIG_HOME"], join(home_dir(e), <<".config">>))

ETC_XDG == <<SEP, "etc", SEP, "xdg">>

xdg_config_dirs(e) == paths_from_env(e["XDG_CONFIG_DIRS"], <<ETC_XDG>>)

(***************************************************************************)
(* The location catalog (locations.rs)                                      *)
(***************************************************************************)
MYCROFT == <<"mycroft">>

MYCROFT_CONF == <<"mycroft.conf">>

OLD_USER_CONFIG == <<".mycroft", SEP, "mycroft.conf">>

WEB_CACHE == <<"web_cache.json">>

ETC_MYCROFT_CONF == <<SEP, "etc", SEP, "mycroft", SEP, "mycroft.conf">>

USR_SHARE_MYCROFT_CONF == <<SEP, "usr", SEP, "share", SEP, "mycroft", SEP, "mycroft.conf">>

\* Vec::into_iter().rev().collect()
rev(s) == [i \in DOMAIN s |-> s[Len(s) + 1 - i]]

\* env::var(name).unwrap_or_else(|_| String::from("/"))
var_or_root(v) == IF v.set /\ is_utf8(v.s) THEN v.s ELSE <<SEP>>

\* get_xdg_config_dirs(None)
get_xdg_config_dirs(e) ==
  LET xdg_dirs == Append(xdg_config_dirs(e), xdg_config_home(e))
  IN [i \in DOMAIN xdg_dirs |-> join(xdg_dirs[i], MYCROFT)]

\* get_xdg_config_save_path(None)
get_xdg_config_save_path(e) == join(xdg_config_home(e), MYCROFT)

\* the old user config path of find_user_config and get_config_locations
old_path(e) == join(var_or_root(e["HOME"]), OLD_USER_CONFIG)

\* find_user_config that prefers the old path
find_user_config_old_first(e, files) ==
  LET p == join(get_xdg_config_save_path(e), MYCROFT_CONF) IN
  IF old_path(e) \in files THEN old_path(e) ELSE p

\* find_user_config; files are the paths at which is_file() holds
find_user_config(e, files) ==
  LET p == join(get_xdg_config_save_path(e), MYCROFT_CONF) IN
  IF p \in files THEN p
  ELSE IF old_path(e) \in files THEN old_path(e)
  ELSE p

get_webcache_location(e) == join(get_xdg_config_save_path(e), WEB_CACHE)

\* get_config_locations without the system entry that repeats the default one
get_config_locations_deduplicated(e) ==
  <<ETC_MYCROFT_CONF, USR_SHARE_MYCROFT_CONF, get_webcache_location(e),
    old_path(e), join(get_xdg_config_save_path(e), MYCROFT_CONF)>>

get_config_locations(e) ==
  <<ETC_MYCROFT_CONF, USR_SHARE_MYCROFT_CONF, ETC_MYCROFT_CONF,
    get_webcache_location(e), old_path(e),
    join(get_xdg_config_save_path(e), MYCROFT_CONF)>>

get_xdg_config_locations(e) ==
  LET dirs == get_xdg_config_dirs(e)
  IN rev([i \in DOMAIN dirs |-> join(dirs[i], MYCROFT_CONF)])

\* no location function has been called
NoCall == [fn |-> "none", value |-> << >>, files |-> {}]

Returned(fn, value, files) == [fn |-> fn, value |-> value, files |-> files]

(***************************************************************************)
(* Threads that hold clones of one LocalConf                                *)
(***************************************************************************)
Threads == {"t1", "t2"}

NoThread == "no thread"

\* a parking_lot::RwLock nobody holds
Unlocked == [writer |-> NoThread, readers |-> {}]

\* RwLock::write() ignoring the readers
write_among_readers(lock) == lock.writer = NoThread

\* RwLock::write() returns once nobody holds the lock
write(lock) == lock.writer = NoThread /\ lock.readers = {}

\* RwLock::read() returns once no writer holds the lock
read(lock) == lock.writer = NoThread

\* a read guard that is kept
keep(readers, t) == readers

\* drop(guard) of a read guard
drop(readers, t) == readers \ {t}

\* a thread that is not inside a call
Idle == [pc |-> "idle", op |-> "none", p |-> None, config |-> EmptyDict,
         todo |-> {}, version |-> 0, modified |-> 0]

(***************************************************************************)
(* Initial state: no file exists and no layer has been constructed yet      *)
(***************************************************************************)
Init ==
  /\ fs = [p \in Paths |-> Absent]
  /\ now = 0
  /\ kind = "none"
  /\ path = None
  /\ data = EmptyDict
  /\ last_loaded = {}
  /\ allow_overwrite = TRUE
  /\ constructed_allow = TRUE
  /\ last = Call("init", None, EmptyDict, "ok", FALSE, "")
  /\ env = [v \in EnvVars |-> Unset]
  /\ out = NoCall
  /\ th = [t \in Threads |-> Idle]
  /\ data_lock = Unlocked
  /\ last_loaded_lock = Unlocked
  /\ whole = EmptyDict
  /\ merged = {}

(***************************************************************************)
(* Other programs acting on the files                                       *)
(***************************************************************************)
ExtWrite(p, text) ==
  /\ now < MaxTime
  /\ now' = now + 1
  /\ fs' = [fs EXCEPT ![p] = File(text, now')]
  /\ last' = Call("ext", p, EmptyDict, "ok", FALSE, "")
  /\ UNCHANGED layer
  /\ UNCHANGED aside

\* chmod 000: the modification time stays
ExtLock(p) ==
  /\ now < MaxTime
  /\ now' = now + 1
  /\ fs[p].kind = "file"
  /\ fs[p].readable
  /\ fs' = [fs EXCEPT ![p] = Locked(fs[p].mtime)]
  /\ last' = Call("ext", p, EmptyDict, "ok", FALSE, "")
  /\ UNCHANGED layer
  /\ UNCHANGED aside

ExtRemove(p) ==
  /\ now < MaxTime
  /\ now' = now + 1
  /\ fs[p].kind # "absent"
  /\ fs' = [fs EXCEPT ![p] = Absent]
  /\ last' = Call("ext", p, EmptyDict, "ok", FALSE, "")
  /\ UNCHANGED layer
  /\ UNCHANGED aside

ExtMkdir(p) ==
  /\ now < MaxTime
  /\ now' = now + 1
  /\ fs[p].kind = "absent"
  /\ fs' = [fs EXCEPT ![p] = Dir]
  /\ last' = Call("ext", p, EmptyDict, "ok", FALSE, "")
  /\ UNCHANGED layer
  /\ UNCHANGED aside

(***************************************************************************)
(* Calls on a LocalConf                                                     *)
(***************************************************************************)
\* LocalConf::new(path); a panic leaves the application with the layer it had
NewLocal(po) ==
  LET r == load_local(po, po, EmptyDict, {}, fs) IN
  /\ last' = Call("LocalConf::new", po, EmptyDict, r.result, r.read, r.log)
  /\ IF r.result = "panic"
     THEN UNCHANGED layer
     ELSE /\ kind' = "LocalConf"
          /\ path' = po
          /\ data' = r.data
          /\ last_loaded' = r.last_loaded
          /\ allow_overwrite' = TRUE
          /\ constructed_allow' = TRUE
  /\ UNCHANGED <<fs, now>>
  /\ UNCHANGED aside

LoadLocal(override) ==
  LET r == load_local(path, override, data, last_loaded, fs) IN
  /\ kind = "LocalConf"
  /\ last' = Call("load_local", override, EmptyDict, r.result, r.read, r.log)
  /\ data' = r.data
  /\ last_loaded' = r.last_loaded
  /\ UNCHANGED <<fs, now, kind, path, allow_overwrite, constructed_allow>>
  /\ UNCHANGED aside

Reload ==
  LET r == reload(path, data, last_loaded, fs) IN
  /\ kind = "LocalConf"
  /\ last' = Call("reload", None, EmptyDict, r.result, r.read, r.log)
  /\ data' = r.data
  /\ last_loaded' = r.last_loaded
  /\ UNCHANGED <<fs, now, kind, path, allow_overwrite, constructed_allow>>
  /\ UNCHANGED aside

Store(override, ord) ==
  LET r == store(path, override, data, fs, ord, now + 1) IN
  /\ kind = "LocalConf"
  /\ r.wrote => now < MaxTime
  /\ now' = IF r.wrote THEN now + 1 ELSE now
  /\ fs' = r.fs
  /\ last' = Call("store", override, data, r.result, FALSE, r.log)
  /\ UNCHANGED layer
  /\ UNCHANGED aside

Merge(conf) ==
  /\ kind = "LocalConf"
  /\ data' = MergeInto(data, conf)
  /\ last' = Call("merge", None, conf, "ok", FALSE, "")
  /\ UNCHANGED <<fs, now, kind, path, last_loaded, allow_overwrite, constructed_allow>>
  /\ UNCHANGED aside

(***************************************************************************)
(* Calls on a ReadOnlyConfig                                                *)
(***************************************************************************)
NewReadOnly(p, allow) ==
  LET r == load_local(p, p, EmptyDict, {}, fs) IN
  /\ last' = Call("ReadOnlyConfig::new", p, EmptyDict, r.result, r.read, r.log)
  /\ IF r.result = "panic"
     THEN UNCHANGED layer
     ELSE /\ kind' = "ReadOnlyConfig"
          /\ path' = p
          /\ data' = r.data
          /\ last_loaded' = r.last_loaded
          /\ allow_overwrite' = allow
          /\ constructed_allow' = allow
  /\ UNCHANGED <<fs, now>>
  /\ UNCHANGED aside

ReadOnlyReload ==
  LET r == reload(path, data, last_loaded, fs) IN
  /\ kind = "ReadOnlyConfig"
  /\ last' = Call("ReadOnlyConfig::reload", None, EmptyDict, r.result, r.read, r.log)
  /\ data' = r.data
  /\ last_loaded' = r.last_loaded
  /\ allow_overwrite' = FlagAfterReload(allow_overwrite, r.result)
  /\ UNCHANGED <<fs, now, kind, path, constructed_allow>>
  /\ UNCHANGED aside

ReadOnlySet(key, value) ==
  LET conf == Insert(EmptyDict, key, value) IN
  /\ kind = "ReadOnlyConfig"
  /\ IF ~Permitted(allow_overwrite)
     THEN /\ last' = Call("ReadOnlyConfig::set", None, conf, POLICY_ERROR, FALSE, "")
          /\ UNCHANGED data
     ELSE /\ last' = Call("ReadOnlyConfig::set", None, conf, "ok", FALSE, "")
          /\ data' = Insert(data, key, value)
  /\ UNCHANGED <<fs, now, kind, path, last_loaded, allow_overwrite, constructed_allow>>
  /\ UNCHANGED aside

ReadOnlyMerge(conf) ==
  /\ kind = "ReadOnlyConfig"
  /\ IF ~Permitted(allow_overwrite)
     THEN /\ last' = Call("ReadOnlyConfig::merge", None, conf, POLICY_ERROR, FALSE, "")
          /\ UNCHANGED data
     ELSE /\ last' = Call("ReadOnlyConfig::merge", None, conf, "ok", FALSE, "")
          /\ data' = MergeInto(data, conf)
  /\ UNCHANGED <<fs, now, kind, path, last_loaded, allow_overwrite, constructed_allow>>
  /\ UNCHANGED aside

ReadOnlyStore(override, ord) ==
  LET r == store(path, override, data, fs, ord, now + 1) IN
  /\ kind = "ReadOnlyConfig"
  /\ IF ~Permitted(allow_overwrite)
     THEN /\ last' = Call("ReadOnlyConfig::store", override, data, POLICY_ERROR, FALSE, "")
          /\ UNCHANGED <<fs, now>>
     ELSE /\ r.wrote => now < MaxTime
          /\ now' = IF r.wrote THEN now + 1 ELSE now
          /\ fs' = r.fs
          /\ last' = Call("ReadOnlyConfig::store", override, data, r.result, FALSE, r.log)
  /\ UNCHANGED layer
  /\ UNCHANGED aside

(***************************************************************************)
(* Calls on a MycroftDefaultConfig                                          *)
(***************************************************************************)
\* MycroftDefaultConfig::new() == ReadOnlyConfig::new(DEFAULT_CONFIG, false)
NewDefault ==
  LET r == load_local(DEFAULT_CONFIG, DEFAULT_CONFIG, EmptyDict, {}, fs) IN
  /\ last' = Call("MycroftDefaultConfig::new", DEFAULT_CONFIG, EmptyDict, r.result, r.read, r.log)
  /\ IF r.result = "panic"
     THEN UNCHANGED layer
     ELSE /\ kind' = "MycroftDefaultConfig"
          /\ path' = DEFAULT_CONFIG
          /\ data' = r.data
          /\ last_loaded' = r.last_loaded
          /\ allow_overwrite' = FALSE
          /\ constructed_allow' = FALSE
  /\ UNCHANGED <<fs, now>>
  /\ UNCHANGED aside

\* self.0.inner.path = Some(root_config); self.0.reload()
SetRootConfigPath(root_config) ==
  LET r == reload(root_config, data, last_loaded, fs) IN
  /\ kind = "MycroftDefaultConfig"
  /\ path' = root_config
  /\ last' = Call("set_root_config_path", root_config, EmptyDict, r.result, r.read, r.log)
  /\ data' = r.data
  /\ last_loaded' = r.last_loaded
  /\ allow_overwrite' = FlagAfterReload(allow_overwrite, r.result)
  /\ UNCHANGED <<fs, now, kind, constructed_allow>>
  /\ UNCHANGED aside

\* the dictionaries passed to merge
MergeArgs == {Insert(EmptyDict, "k", "1"),
              Insert(Insert(EmptyDict, "k", "2"), "j", URL)}

\* the dictionaries passed to ReadOnlyConfig::merge
ReadOnlyMergeArgs == {Insert(EmptyDict, "k", "1")}

\* the keys and values passed to ReadOnlyConfig::set
SetKeys == {"j"}

SetVals == {"2"}

Ext ==
  \/ \E p \in Paths, text \in Presets : ExtWrite(p, text)
  \/ \E p \in Paths : ExtLock(p)
  \/ \E p \in Paths : ExtRemove(p)
  \/ \E p \in Paths : ExtMkdir(p)

\* an application that holds a LocalConf
Next ==
  \/ Ext
  \/ \E po \in OptPaths : NewLocal(po)
  \/ \E o \in OptPaths : LoadLocal(o)
  \/ Reload
  \/ \E o \in OptPaths, ord \in Orders(DOMAIN data) : Store(o, ord)
  \/ \E conf \in MergeArgs : Merge(conf)

Spec == Init /\ [][Next]_vars

\* an application that holds a ReadOnlyConfig
NextReadOnly ==
  \/ Ext
  \/ \E p \in Paths, allow \in BOOLEAN : NewReadOnly(p, allow)
  \/ ReadOnlyReload
  \/ \E key \in SetKeys, value \in SetVals : ReadOnlySet(key, value)
  \/ \E conf \in ReadOnlyMergeArgs : ReadOnlyMerge(conf)
  \/ \E o \in OptPaths, ord \in Orders(DOMAIN data) : ReadOnlyStore(o, ord)

SpecReadOnly == Init /\ [][NextReadOnly]_vars

\* an application that holds a MycroftDefaultConfig
NextDefault ==
  \/ Ext
  \/ NewDefault
  \/ \E p \in Paths : SetRootConfigPath(p)

SpecDefault == Init /\ [][NextDefault]_vars

(***************************************************************************)
(* A program that calls the location functions in some environment          *)
(***************************************************************************)
Alphabet == {SEP, "a", COLON}

Strings == UNION {[1..n -> Alphabet] : n \in 0..MaxLen}

ConfigHomeValues ==
  {Unset, Var(<< >>), Var(<<"x">>), Var(<<SEP, "x">>), Var(<<SEP, NOT_UTF8>>)}

HomeValues ==
  {Unset, Var(<< >>), Var(<<"h">>), Var(<<SEP, "h">>), Var(<<SEP, NOT_UTF8>>)}

ConfigDirsValues == {Unset, Var(<<SEP, NOT_UTF8>>)} \cup {Var(s) : s \in Strings}

Envs ==
  {[v \in EnvVars |-> IF v = "HOME" THEN h ELSE IF v = "XDG_CONFIG_HOME" THEN c ELSE d] :
     h \in HomeValues, c \in ConfigHomeValues, d \in ConfigDirsValues}

\* the program starts in any environment; no layer is involved
InitEnv ==
  /\ fs = [p \in Paths |-> Absent]
  /\ now = 0
  /\ kind = "none"
  /\ path = None
  /\ data = EmptyDict
  /\ last_loaded = {}
  /\ allow_overwrite = TRUE
  /\ constructed_allow = TRUE
  /\ last = Call("init", None, EmptyDict, "ok", FALSE, "")
  /\ env \in Envs
  /\ out = NoCall
  /\ th = [t \in Threads |-> Idle]
  /\ data_lock = Unlocked
  /\ last_loaded_lock = Unlocked
  /\ whole = EmptyDict
  /\ merged = {}

\* what a call of a location function leaves alone
around == <<fs, now, kind, path, data, last_loaded, allow_overwrite,
            constructed_allow, last, env, th, data_lock, last_loaded_lock,
            whole, merged>>

XdgConfigHome ==
  /\ out' = Returned("xdg_config_home", xdg_config_home(env), {})
  /\ UNCHANGED around

XdgConfigDirs ==
  /\ out' = Returned("xdg_config_dirs", xdg_config_dirs(env), {})
  /\ UNCHANGED around

GetXdgConfigLocations ==
  /\ out' = Returned("get_xdg_config_locations", get_xdg_config_locations(env), {})
  /\ UNCHANGED around

\* the two paths find_user_config tests with is_file()
UserConfigPaths(e) == {join(get_xdg_config_save_path(e), MYCROFT_CONF), old_path(e)}

FindUserConfig(files) ==
  /\ out' = Returned("find_user_config", find_user_config(env, files), files)
  /\ UNCHANGED around

GetConfigLocations ==
  /\ out' = Returned("get_config_locations", get_config_locations(env), {})
  /\ UNCHANGED around

NextEnv ==
  \/ XdgConfigHome
  \/ XdgConfigDirs
  \/ GetXdgConfigLocations
  \/ \E files \in SUBSET UserConfigPaths(env) : FindUserConfig(files)
  \/ GetConfigLocations

SpecEnv == InitEnv /\ [][NextEnv]_vars

(***************************************************************************)
(* Threads calling load_local, reload, store and merge on clones of one     *)
(* layer.  A step is one lock operation, one file-system call or one insert. *)
(***************************************************************************)
\* LocalConf::new(Some(DEFAULT_CONFIG)) with the file missing, then cloned
InitShared ==
  /\ fs = [p \in Paths |-> Absent]
  /\ now = 0
  /\ kind = "LocalConf"
  /\ path = DEFAULT_CONFIG
  /\ data = EmptyDict
  /\ last_loaded = {}
  /\ allow_overwrite = TRUE
  /\ constructed_allow = TRUE
  /\ last = Call("LocalConf::new", DEFAULT_CONFIG, EmptyDict, "ok", FALSE,
                 "not defined, skipping")
  /\ env = [v \in EnvVars |-> Unset]
  /\ out = NoCall
  /\ th = [t \in Threads |-> Idle]
  /\ data_lock = Unlocked
  /\ last_loaded_lock = Unlocked
  /\ whole = EmptyDict
  /\ merged = {}

\* what no thread step changes
fixed == <<kind, path, allow_overwrite, constructed_allow, last, env, out>>

\* the stores that have been called and have not written yet
PendingStores == {t \in Threads : th[t].pc \in {"store_lock", "store_write"}}

\* the clock has a tick left for every pending store and one more
TickLeft == now + Cardinality(PendingStores) < MaxTime

At(t, pc) == [th EXCEPT ![t].pc = pc]

Return(t) == [th EXCEPT ![t] = Idle]

\* line 48: let path = path.or_else(|| self.path.as_deref())
LoadLocalCall(t, override) ==
  /\ th[t].pc = "idle"
  /\ th' = [th EXCEPT ![t] = [Idle EXCEPT !.op = "load_local",
                                         !.pc = "load_check",
                                         !.p = Effective(override)]]
  /\ UNCHANGED <<fs, now, data, last_loaded, data_lock, last_loaded_lock, whole, merged>>
  /\ UNCHANGED fixed

\* lines 49-50 and 74
LoadCheck(t) ==
  /\ th[t].pc = "load_check"
  /\ th' = IF th[t].p # None /\ fs[th[t].p].kind = "file"
           THEN At(t, "load_parse") ELSE Return(t)
  /\ UNCHANGED <<fs, now, data, last_loaded, data_lock, last_loaded_lock, whole, merged>>
  /\ UNCHANGED fixed

\* lines 51-60: a file that has gone, cannot be read or does not parse panics
LoadParse(t) ==
  /\ th[t].pc = "load_parse"
  /\ \E f \in {fs[th[t].p]} :
       \E config \in {Parse(th[t].p, f.content)} :
         th' = IF f.kind # "file" \/ ~f.readable \/ ~config.ok
               THEN Return(t)
               ELSE [th EXCEPT ![t].pc = "load_lock", ![t].config = config.d,
                               ![t].version = f.mtime]
  /\ UNCHANGED <<fs, now, data, last_loaded, data_lock, last_loaded_lock, whole, merged>>
  /\ UNCHANGED fixed

\* line 61: let mut data = self.data.write()
LoadLock(t) ==
  /\ th[t].pc = "load_lock"
  /\ write(data_lock)
  /\ data_lock' = [data_lock EXCEPT !.writer = t]
  /\ th' = [th EXCEPT ![t].pc = "load_insert", ![t].todo = DOMAIN th[t].config]
  /\ UNCHANGED <<fs, now, data, last_loaded, last_loaded_lock, whole, merged>>
  /\ UNCHANGED fixed

\* lines 62-64: one turn of the loop, in the HashMap's order
LoadInsert(t, key) ==
  /\ th[t].pc = "load_insert"
  /\ key \in th[t].todo
  /\ data' = Insert(data, key, th[t].config[key])
  /\ th' = [th EXCEPT ![t].todo = th[t].todo \ {key}]
  /\ UNCHANGED <<fs, now, last_loaded, data_lock, last_loaded_lock, whole, merged>>
  /\ UNCHANGED fixed

\* lines 66-68 after the loop: path == self.path, path.metadata(), modified();
\* on another path, or when metadata() fails, the function returns and the
\* write guard is dropped
LoadMetadata(t) ==
  /\ th[t].pc = "load_insert"
  /\ th[t].todo = {}
  /\ IF th[t].p = path /\ fs[th[t].p].kind # "absent"
     THEN /\ th' = [th EXCEPT ![t].pc = "load_mark", ![t].modified = fs[th[t].p].mtime]
          /\ UNCHANGED <<data_lock, whole>>
     ELSE /\ th' = Return(t)
          /\ data_lock' = Unlocked
          /\ whole' = data
  /\ merged' = IF th[t].p = path THEN merged \cup {th[t].version} ELSE merged
  /\ UNCHANGED <<fs, now, data, last_loaded, last_loaded_lock>>
  /\ UNCHANGED fixed

\* line 69: *self.last_loaded.write() = Some(modified); then the function
\* returns and the write guard on data is dropped
LoadMark(t) ==
  /\ th[t].pc = "load_mark"
  /\ write(last_loaded_lock)
  /\ last_loaded' = {th[t].modified}
  /\ th' = Return(t)
  /\ data_lock' = Unlocked
  /\ whole' = data
  /\ UNCHANGED <<fs, now, data, last_loaded_lock, merged>>
  /\ UNCHANGED fixed

\* lines 80-83: self.path, path.is_file(), path.metadata(), modified()
ReloadCall(t) ==
  /\ th[t].pc = "idle"
  /\ th' = IF path # None /\ fs[path].kind = "file"
           THEN [th EXCEPT ![t] = [Idle EXCEPT !.op = "reload", !.pc = "reload_read",
                                               !.p = path,
                                               !.modified = fs[path].mtime]]
           ELSE Return(t)
  /\ UNCHANGED <<fs, now, data, last_loaded, data_lock, last_loaded_lock, whole, merged>>
  /\ UNCHANGED fixed

\* line 84: let last_loaded = self.last_loaded.read()
ReloadRead(t) ==
  /\ th[t].pc = "reload_read"
  /\ read(last_loaded_lock)
  /\ last_loaded_lock' = [last_loaded_lock EXCEPT !.readers = @ \cup {t}]
  /\ th' = At(t, "reload_decide")
  /\ UNCHANGED <<fs, now, data, last_loaded, data_lock, whole, merged>>
  /\ UNCHANGED fixed

\* lines 85-90: the guard is dropped in both branches, and before load_local
ReloadDecide(t) ==
  /\ th[t].pc = "reload_decide"
  /\ IF Stale(last_loaded, th[t].modified)
     THEN /\ last_loaded_lock' = [last_loaded_lock EXCEPT !.readers = drop(@, t)]
          /\ th' = At(t, "load_check")
     ELSE /\ last_loaded_lock' = [last_loaded_lock EXCEPT !.readers = @ \ {t}]
          /\ th' = Return(t)
  /\ UNCHANGED <<fs, now, data, last_loaded, data_lock, whole, merged>>
  /\ UNCHANGED fixed

\* lines 97-98 and 124: the path; without one the call logs and returns
StoreCall(t, override) ==
  /\ th[t].pc = "idle"
  /\ TickLeft
  /\ th' = IF Effective(override) # None
           THEN [th EXCEPT ![t] = [Idle EXCEPT !.op = "store", !.pc = "store_lock",
                                               !.p = Effective(override)]]
           ELSE Return(t)
  /\ UNCHANGED <<fs, now, data, last_loaded, data_lock, last_loaded_lock, whole, merged>>
  /\ UNCHANGED fixed

\* line 99: let data = self.data.read()
StoreLock(t) ==
  /\ th[t].pc = "store_lock"
  /\ read(data_lock)
  /\ data_lock' = [data_lock EXCEPT !.readers = @ \cup {t}]
  /\ th' = At(t, "store_write")
  /\ UNCHANGED <<fs, now, data, last_loaded, last_loaded_lock, whole, merged>>
  /\ UNCHANGED fixed

\* lines 100-122: serialize, open and write; then the read guard is dropped
StoreWrite(t, ord) ==
  /\ th[t].pc = "store_write"
  /\ LET r == store(path, th[t].p, data, fs, ord, now + 1)
     IN /\ now' = IF r.wrote THEN now + 1 ELSE now
        /\ fs' = r.fs
  /\ data_lock' = [data_lock EXCEPT !.readers = @ \ {t}]
  /\ th' = Return(t)
  /\ UNCHANGED <<data, last_loaded, last_loaded_lock, whole, merged>>
  /\ UNCHANGED fixed

\* merge(conf) is called
MergeCall(t, conf) ==
  /\ th[t].pc = "idle"
  /\ th' = [th EXCEPT ![t] = [Idle EXCEPT !.op = "merge", !.pc = "merge_lock",
                                         !.config = conf]]
  /\ UNCHANGED <<fs, now, data, last_loaded, data_lock, last_loaded_lock, whole, merged>>
  /\ UNCHANGED fixed

\* line 130: let mut data = self.data.write()
MergeLock(t) ==
  /\ th[t].pc = "merge_lock"
  /\ write(data_lock)
  /\ data_lock' = [data_lock EXCEPT !.writer = t]
  /\ th' = [th EXCEPT ![t].pc = "merge_insert", ![t].todo = DOMAIN th[t].config]
  /\ UNCHANGED <<fs, now, data, last_loaded, last_loaded_lock, whole, merged>>
  /\ UNCHANGED fixed

\* lines 131-133: one turn of the loop
MergeInsert(t, key) ==
  /\ th[t].pc = "merge_insert"
  /\ key \in th[t].todo
  /\ data' = Insert(data, key, th[t].config[key])
  /\ th' = [th EXCEPT ![t].todo = th[t].todo \ {key}]
  /\ UNCHANGED <<fs, now, last_loaded, data_lock, last_loaded_lock, whole, merged>>
  /\ UNCHANGED fixed

\* line 134: the loop is over, the write guard is dropped
MergeReturn(t) ==
  /\ th[t].pc = "merge_insert"
  /\ th[t].todo = {}
  /\ th' = Return(t)
  /\ data_lock' = Unlocked
  /\ whole' = data
  /\ UNCHANGED <<fs, now, data, last_loaded, last_loaded_lock, merged>>
  /\ UNCHANGED fixed

\* the texts another process writes to the bound file
SharedPresets == {J2, JC}

\* the dictionaries the threads merge
SharedMergeArgs == {Insert(Insert(EmptyDict, "k", "2"), "j", URL)}

\* another process rewrites or removes the bound file
SharedExt ==
  \/ TickLeft /\ \E text \in SharedPresets : ExtWrite(path, text)
  \/ TickLeft /\ ExtRemove(path)

\* one step of thread t
Step(t) ==
  \/ \E o \in OptPaths : LoadLocalCall(t, o)
  \/ LoadCheck(t)
  \/ LoadParse(t)
  \/ LoadLock(t)
  \/ \E key \in Keys : LoadInsert(t, key)
  \/ LoadMetadata(t)
  \/ LoadMark(t)
  \/ ReloadCall(t)
  \/ ReloadRead(t)
  \/ ReloadDecide(t)
  \/ StoreCall(t, None)
  \/ StoreLock(t)
  \/ \E ord \in Orders(DOMAIN data) : StoreWrite(t, ord)
  \/ \E conf \in SharedMergeArgs : MergeCall(t, conf)
  \/ MergeLock(t)
  \/ \E key \in Keys : MergeInsert(t, key)
  \/ MergeReturn(t)

NextShared ==
  \/ SharedExt
  \/ \E t \in Threads : Step(t)

SpecShared == InitShared /\ [][NextShared]_vars

\* a step inside a call that has been made
Running(t) == th[t].pc # "idle" /\ Step(t)

\* the steps that wait for a lock
Acquire(t) == LoadLock(t) \/ LoadMark(t) \/ ReloadRead(t) \/ StoreLock(t) \/ MergeLock(t)

\* Every thread inside a call is scheduled, and parking_lot's locks are fair:
\* a thread that could take the lock again and again does get it.  No thread
\* has to make another call.
SpecSharedFair ==
  /\ SpecShared
  /\ \A t \in Threads : WF_vars(Running(t)) /\ SF_vars(Acquire(t))

(***************************************************************************)
(* Properties                                                               *)
(***************************************************************************)

\* the file at p can be opened and parses
Loadable(p) ==
  /\ p # None
  /\ fs[p].kind = "file"
  /\ fs[p].readable
  /\ Parse(p, fs[p].content).ok

\* the file at p is a regular file that cannot be opened or does not parse
Broken(p) ==
  /\ p # None
  /\ fs[p].kind = "file"
  /\ ~fs[p].readable \/ ~Parse(p, fs[p].content).ok

Mutators == {"ReadOnlyConfig::set", "ReadOnlyConfig::merge", "ReadOnlyConfig::store"}

\* C1: on a ReadOnlyConfig constructed with allow_overwrite = false every set,
\* merge and store returns the policy error and changes neither the
\* dictionary nor the files; on one constructed with allow_overwrite = true a
\* set succeeds and the dictionary then maps the key to the value.
C1_ReadOnlyEnforced ==
  [][(kind = "ReadOnlyConfig" /\ last'.op \in Mutators) =>
       IF ~constructed_allow
       THEN last'.result = POLICY_ERROR /\ data' = data /\ fs' = fs
       ELSE last'.op = "ReadOnlyConfig::set" =>
              /\ last'.result = "ok"
              /\ \A x \in DOMAIN last'.conf :
                   x \in DOMAIN data' /\ data'[x] = last'.conf[x]]_vars

\* C2: a load_local or reload that parses a file leaves the key-overwrite
\* union of the previous dictionary and the file's dictionary, and no
\* load_local or reload removes a key.
C2_LoadIsUnion ==
  [][last'.op \in {"load_local", "reload"} =>
       /\ DOMAIN data \subseteq DOMAIN data'
       /\ (last'.result = "ok" /\ last'.read) =>
            LET file == Parse(Effective(last'.path), fs[Effective(last'.path)].content).d IN
            /\ DOMAIN data' = (DOMAIN data) \cup (DOMAIN file)
            /\ \A x \in DOMAIN file : data'[x] = file[x]
            /\ \A x \in (DOMAIN data) \ (DOMAIN file) : data'[x] = data[x]]_vars

\* a load of a file holding only k has overwritten k and kept the j that a
\* merge had put into the dictionary
C2_Witness ==
  /\ last.op = "load_local"
  /\ last.result = "ok"
  /\ last.read
  /\ DOMAIN Parse(Effective(last.path), fs[Effective(last.path)].content).d = {"k"}
  /\ data = Insert(Insert(EmptyDict, "k", "1"), "j", URL)

\* C3: a store to a path followed by the construction of a fresh layer from
\* the same path gives a layer whose dictionary is the stored one, whatever
\* the dictionary and whatever the file held before.
C3_RoundTrip ==
  [][(/\ last.op = "store"
      /\ last.result = "ok"
      /\ Effective(last.path) # None
      /\ last'.op = "LocalConf::new"
      /\ last'.path = Effective(last.path)) =>
       last'.result = "ok" /\ data' = last.conf]_vars

\* C4: reload reads the bound file only if it is a regular file and there is
\* no marker or the file's modification time is newer than the marker; when
\* the file is the version last loaded, reload reads nothing and leaves the
\* dictionary and the marker as they are.
C4_ReloadOnlyWhenNewer ==
  [][last'.op = "reload" =>
       /\ last'.read =>
            /\ path # None
            /\ fs[path].kind = "file"
            /\ last_loaded = {} \/ \E t \in last_loaded : t < fs[path].mtime
       /\ (path # None /\ fs[path].kind = "file" /\ last_loaded = {fs[path].mtime}) =>
            /\ ~last'.read
            /\ last'.result = "ok"
            /\ data' = data
            /\ last_loaded' = last_loaded]_vars

\* a reload has skipped a file whose modification time is the marker and
\* which could not be read any more
C4_Witness ==
  /\ last.op = "reload"
  /\ ~last.read
  /\ path # None
  /\ last_loaded = {fs[path].mtime}
  /\ Broken(path)
  /\ data # EmptyDict

\* C5: when set_root_config_path(p) returns and p is a regular file that
\* parses, the dictionary holds every key and value of p.
C5_RootConfigLoaded ==
  (last.op = "set_root_config_path" /\ Loadable(path)) =>
    /\ last.result = "ok"
    /\ LET file == Parse(path, fs[path].content).d IN
       \A x \in DOMAIN file : x \in DOMAIN data /\ data[x] = file[x]

\* C6: a load_local, reload or construction that reaches a regular file
\* which cannot be read or parsed ends in a panic the caller receives, and
\* the dictionary and the marker are as before.
C6_BrokenFileSurfaces ==
  [][(/\ last'.op \in {"load_local", "reload", "LocalConf::new"}
      /\ last'.read
      /\ Broken(IF last'.op = "LocalConf::new" THEN last'.path
                ELSE Effective(last'.path))) =>
       /\ last'.result = "panic"
       /\ data' = data
       /\ last_loaded' = last_loaded
       /\ path' = path]_vars

\* a reload of a layer that holds data has panicked on the bound file
C6_Witness ==
  /\ last.op = "reload"
  /\ last.result = "panic"
  /\ Broken(path)
  /\ data # EmptyDict
  /\ last_loaded # {}

\* C7 as claimed: LocalConf::new returns a layer for every path and every
\* state of the file, and for a missing file the layer is empty and has no
\* marker.
C7_NewNeverFails ==
  last.op = "LocalConf::new" =>
    /\ last.result = "ok"
    /\ (last.path # None /\ fs[last.path].kind = "absent") =>
         data = EmptyDict /\ last_loaded = {}

\* C7 as amended: LocalConf::new panics exactly when the path is a regular
\* file that cannot be read or parsed; otherwise it returns a layer bound to
\* the path, which is empty and has no marker when there is no path or no
\* regular file at it.
C7_NewFailsOnlyOnBrokenFile ==
  last.op = "LocalConf::new" =>
    /\ last.result = "panic" <=> Broken(last.path)
    /\ last.result = "ok" =>
         /\ kind = "LocalConf"
         /\ path = last.path
         /\ (last.path = None \/ fs[last.path].kind # "file") =>
              data = EmptyDict /\ last_loaded = {}

\* a construction has panicked on a file that cannot be read or parsed, and
\* the application still holds the layer it had
C7_Witness ==
  /\ last.op = "LocalConf::new"
  /\ last.result = "panic"
  /\ Broken(last.path)
  /\ kind = "LocalConf"

\* C8: store(None) on a layer without a bound path reports the error, writes
\* no file and leaves the dictionary; no merge or load_local gives such a
\* layer a path.
C8_NoPathStore ==
  [][(kind = "LocalConf" /\ path = None) =>
       /\ last'.op \in {"merge", "load_local", "reload", "store"} => path' = None
       /\ (last'.op = "store" /\ last'.path = None) =>
            /\ last'.log = "In-memory configuration, no save location"
            /\ fs' = fs
            /\ data' = data]_vars

\* a layer without a path that holds merged and loaded data has been asked
\* to store itself
C8_Witness ==
  /\ kind = "LocalConf"
  /\ path = None
  /\ last.op = "store"
  /\ last.path = None
  /\ last.log = "In-memory configuration, no save location"
  /\ DOMAIN data = {"k", "j"}

\* C9: the write restriction is lifted only while a reload runs: between
\* calls the flag of a ReadOnlyConfig is the one it was constructed with.
C9_RestrictionRestored ==
  kind = "ReadOnlyConfig" => allow_overwrite = constructed_allow

\* C10: after a load_local that parsed a file, a second load_local of the
\* same file leaves the same dictionary and the same marker.
C10_LoadIdempotent ==
  (last.op = "load_local" /\ last.result = "ok" /\ last.read) =>
    LET again == load_local(path, last.path, data, last_loaded, fs) IN
    /\ again.result = "ok"
    /\ again.read
    /\ again.data = data
    /\ again.last_loaded = last_loaded

\* a load_local of the bound file has overwritten a key of a dictionary that
\* holds another key as well
C10_Witness ==
  /\ last.op = "load_local"
  /\ last.result = "ok"
  /\ last.read
  /\ Effective(last.path) = path
  /\ last_loaded # {}
  /\ data = Insert(Insert(EmptyDict, "k", "1"), "j", URL)

(***************************************************************************)
(* The XDG resolver and the location catalog                                *)
(***************************************************************************)
\* the home directory of the specification: HOME if set and non-empty, else "/"
Home == IF env["HOME"].set /\ env["HOME"].s # << >> THEN env["HOME"].s ELSE <<SEP>>

\* home/.config
HomeConfig ==
  IF Home[Len(Home)] = SEP THEN Home \o <<".config">> ELSE Home \o <<SEP, ".config">>

\* XDG_CONFIG_HOME is unset, empty or relative
ConfigHomeUnusable ==
  \/ ~env["XDG_CONFIG_HOME"].set
  \/ env["XDG_CONFIG_HOME"].s = << >>
  \/ env["XDG_CONFIG_HOME"].s[1] # SEP

\* C11 as stated: xdg_config_home() returns an absolute path in every
\* environment, and home/.config when XDG_CONFIG_HOME is unset, empty or
\* relative.
C11_ConfigHomeAbsolute ==
  out.fn = "xdg_config_home" =>
    /\ out.value # << >> /\ out.value[1] = SEP
    /\ ConfigHomeUnusable => out.value = HomeConfig

\* C11, amended: xdg_config_home() returns home/.config when XDG_CONFIG_HOME
\* is unset, empty or relative, and what it returns is absolute whenever HOME
\* is unset, empty or absolute.
C11_ConfigHomeResolved ==
  out.fn = "xdg_config_home" =>
    /\ ConfigHomeUnusable => out.value = HomeConfig
    /\ Home[1] = SEP => (out.value # << >> /\ out.value[1] = SEP)

\* a relative HOME with XDG_CONFIG_HOME unset: the result is home/.config
C11_Witness ==
  /\ out.fn = "xdg_config_home"
  /\ ~env["XDG_CONFIG_HOME"].set
  /\ env["HOME"] = Var(<<"h">>)
  /\ out.value = <<"h", SEP, ".config">>

\* the entries of the value of XDG_CONFIG_DIRS: the text between the colons
DirsEntries == split(env["XDG_CONFIG_DIRS"].s)

\* the places of the absolute, non-empty entries
AbsolutePlaces == {i \in DOMAIN DirsEntries : DirsEntries[i] # << >> /\ DirsEntries[i][1] = SEP}

\* the absolute, non-empty entries in their original order
AbsoluteEntries ==
  [k \in 1..Cardinality(AbsolutePlaces) |->
     DirsEntries[CHOOSE i \in AbsolutePlaces :
                   Cardinality({j \in AbsolutePlaces : j < i}) = k - 1]]

ConfigHomeConf ==
  LET home == IF ConfigHomeUnusable \/ ~is_utf8(env["XDG_CONFIG_HOME"].s)
              THEN HomeConfig ELSE env["XDG_CONFIG_HOME"].s
  IN IF home[Len(home)] = SEP THEN home \o <<"mycroft", SEP, "mycroft.conf">>
     ELSE home \o <<SEP, "mycroft", SEP, "mycroft.conf">>

\* C13: get_xdg_config_locations() returns one mycroft.conf path per resolved
\* XDG config directory, and the config-home directory's path is the last
\* element of the list.
C13_ConfigHomeIsLast ==
  out.fn = "get_xdg_config_locations" =>
    /\ Len(out.value) = Len(xdg_config_dirs(env)) + 1
    /\ out.value[Len(out.value)] = ConfigHomeConf

\* C14: find_user_config() returns the XDG user config path if it is a
\* regular file, otherwise the legacy path if that is a regular file, otherwise
\* the XDG path; it returns the legacy path only when the XDG path is not a
\* file and the legacy path is.
C14_UserConfigPreference ==
  out.fn = "find_user_config" =>
    /\ ConfigHomeConf \in out.files => out.value = ConfigHomeConf
    /\ ConfigHomeConf \notin out.files /\ old_path(env) \in out.files
         => out.value = old_path(env)
    /\ ConfigHomeConf \notin out.files /\ old_path(env) \notin out.files
         => out.value = ConfigHomeConf
    /\ out.value = old_path(env)
         => ConfigHomeConf \notin out.files /\ old_path(env) \in out.files

\* both files exist and the XDG path is returned
C14_Witness ==
  /\ out.fn = "find_user_config"
  /\ out.files = {ConfigHomeConf, old_path(env)}
  /\ env["HOME"] = Var(<<SEP, "h">>)
  /\ out.value = ConfigHomeConf
  /\ out.value # old_path(env)

\* C15: get_config_locations() returns exactly six paths: the default system
\* path, the distribution path, the system path (equal to the default one),
\* the webcache path, the legacy home path and the XDG user path, in this
\* order, with nothing dropped or reordered in any environment.
C15_SixLocationsInOrder ==
  out.fn = "get_config_locations" =>
    /\ Len(out.value) = 6
    /\ out.value[1] = <<SEP, "etc", SEP, "mycroft", SEP, "mycroft.conf">>
    /\ out.value[2] = <<SEP, "usr", SEP, "share", SEP, "mycroft", SEP, "mycroft.conf">>
    /\ out.value[3] = out.value[1]
    /\ out.value[4] = SubSeq(ConfigHomeConf, 1, Len(ConfigHomeConf) - 1) \o <<"web_cache.json">>
    /\ out.value[5] = old_path(env)
    /\ out.value[6] = ConfigHomeConf

\* with XDG_CONFIG_HOME = /x and HOME = /h
C15_Witness ==
  /\ out.fn = "get_config_locations"
  /\ env["XDG_CONFIG_HOME"] = Var(<<SEP, "x">>)
  /\ env["HOME"] = Var(<<SEP, "h">>)
  /\ out.value[4] = <<SEP, "x", SEP, "mycroft", SEP, "web_cache.json">>
  /\ out.value[5] = <<SEP, "h", SEP, ".mycroft", SEP, "mycroft.conf">>
  /\ out.value[6] = <<SEP, "x", SEP, "mycroft", SEP, "mycroft.conf">>

(***************************************************************************)
(* store and the marker                                                     *)
(***************************************************************************)
\* C16: after a store that wrote, the target file holds exactly a
\* serialization of the current dictionary and nothing of its previous
\* content, whether the file was absent or already there with longer content.
C16_StoreRewritesFile ==
  [][(last'.op = "store" /\ last'.result = "ok" /\ Effective(last'.path) # None)
       => \E ord \in Orders(DOMAIN data) :
            fs'[Effective(last'.path)].content
              = Serialized(Effective(last'.path), data, ord)]_vars

\* C20: load_local with an override path other than the bound path merges the
\* file's entries and leaves the marker as it was; a call on the layer changes
\* its marker only if it is a load that read the bound path.
C20_MarkerOnlyFromBoundPath ==
  [][/\ (last'.op = "load_local" /\ last'.path # None /\ last'.path # path)
          => /\ last_loaded' = last_loaded
             /\ (last'.read /\ last'.result = "ok")
                  => LET config == Parse(last'.path, fs[last'.path].content).d
                     IN \A key \in DOMAIN config :
                          key \in DOMAIN data' /\ data'[key] = config[key]
     /\ (last_loaded' # last_loaded /\ last'.op # "LocalConf::new")
          => /\ last'.op \in {"load_local", "reload"}
             /\ last'.read
             /\ path # None
             /\ Effective(last'.path) = path]_vars

\* a layer bound to a path with no marker has merged another file and still
\* has no marker
C20_Witness ==
  /\ kind = "LocalConf"
  /\ last.op = "load_local"
  /\ path # None
  /\ last.path \notin {None, path}
  /\ last.read /\ last.result = "ok"
  /\ data # EmptyDict
  /\ last_loaded = {}

(***************************************************************************)
(* Threads on a shared layer                                                *)
(***************************************************************************)
\* the threads inside an insert loop or between the loop and the return
Writers == {t \in Threads : th[t].pc \in {"load_insert", "load_mark", "merge_insert"}}

\* C17: while a load or merge inserts, no other thread writes or reads the
\* dictionary, and the dictionary a store serializes is the one the last
\* completed load or merge left: never one holding part of a mutation.
C17_WritersExcludeAll ==
  /\ \A t \in Writers : Writers = {t} /\ \A u \in Threads : th[u].pc # "store_write"
  /\ \A t \in Threads : th[t].pc = "store_write" => data = whole

\* a merge has inserted part of its keys while a store waits for the lock
C17_Witness ==
  \E t, u \in Threads :
    /\ th[t].pc = "merge_insert" /\ th[t].todo # {} /\ data # whole
    /\ th[u].pc = "store_lock"

\* C18: the marker is the modification time of a version of the bound file
\* whose content was parsed and merged; hence when the marker is not older
\* than the file's modification time, the file's current version was merged.
C18_MarkerIsMergedVersion ==
  /\ last_loaded \subseteq merged
  /\ (fs[path].kind = "file" /\ \E m \in last_loaded : m >= fs[path].mtime)
       => fs[path].mtime \in merged

\* a running call that waits for a lock it cannot get now
Waiting(t) ==
  \/ th[t].pc \in {"load_lock", "merge_lock"} /\ ~write(data_lock)
  \/ th[t].pc = "store_lock" /\ ~read(data_lock)
  \/ th[t].pc = "load_mark" /\ ~write(last_loaded_lock)
  \/ th[t].pc = "reload_read" /\ ~read(last_loaded_lock)

\* C19: a thread holds the read lock on the marker only while reload
\* compares, never inside load_local; whenever calls are running one of them
\* can take a step; and every call that has been made returns.
C19_EveryCallReturns ==
  /\ [](\A t \in last_loaded_lock.readers : th[t].pc = "reload_decide")
  /\ []((\E t \in Threads : th[t].pc # "idle")
          => \E t \in Threads : th[t].pc # "idle" /\ ~Waiting(t))
  /\ \A t \in Threads : (th[t].pc # "idle") ~> (th[t].pc = "idle")

\* a load holds the write lock on the dictionary and waits for the marker
\* lock, which a reload holds for reading
C19_Witness ==
  \E t, u \in Threads :
    /\ th[t].pc = "load_mark" /\ data_lock.writer = t
    /\ th[u].pc = "reload_decide" /\ u \in last_loaded_lock.readers

(***************************************************************************)
(* Loads of what is not a file                                              *)
(***************************************************************************)
\* the call just made is a load_local whose effective path is missing or not
\* a regular file, or a reload of a layer with no path or whose path is not a
\* regular file
NothingToLoad ==
  \/ /\ last'.op = "load_local"
     /\ Effective(last'.path) = None \/ fs[Effective(last'.path)].kind # "file"
  \/ /\ last'.op = "reload"
     /\ path = None \/ fs[path].kind # "file"

\* C21: load_local on an effective path that does not exist or is not a
\* regular file, and reload on a layer with no bound path or whose bound path
\* is not a regular file, return normally and leave the dictionary and the
\* marker exactly as they were.
C21_MissingFileIsNoOp ==
  [][NothingToLoad =>
       /\ last'.result = "ok"
       /\ ~last'.read
       /\ data' = data
       /\ last_loaded' = last_loaded]_vars

\* a layer that holds entries and a marker has called load_local on a path
\* where no regular file is, and still holds them
C21_Witness ==
  /\ kind = "LocalConf"
  /\ last.op = "load_local"
  /\ Effective(last.path) # None
  /\ fs[Effective(last.path)].kind # "file"
  /\ last.result = "ok"
  /\ data # EmptyDict
  /\ last_loaded # {}

(***************************************************************************)
(* The home directory of the legacy user path                               *)
(***************************************************************************)
\* <home>/.mycroft/mycroft.conf with the home directory the XDG resolver uses
HomeLegacyConf ==
  IF Home[Len(Home)] = SEP THEN Home \o <<".mycroft", SEP, "mycroft.conf">>
  ELSE Home \o <<SEP, ".mycroft", SEP, "mycroft.conf">>

\* C22: for every state of HOME the legacy user path of get_config_locations
\* (its fifth entry) and of find_user_config (what it returns when it does not
\* return the XDG path) is <home>/.mycroft/mycroft.conf, where <home> is HOME
\* if set and non-empty and "/" otherwise, as in the XDG resolver.
C22_OneHomeRule ==
  /\ out.fn = "get_config_locations" => out.value[5] = HomeLegacyConf
  /\ (out.fn = "find_user_config" /\ out.value # ConfigHomeConf)
       => out.value = HomeLegacyConf

=============================================================================
